---- MODULE Spec2Model ----
(***************************************************************************)
(* SmartMatrix3 refresh pipeline (SmartMatrix_Impl.h): the producer        *)
(* matrixCalculations/loadMatrixBuffers, the consumer rowShiftCompleteISR, *)
(* the timing and address tables, and begin().                             *)
(*                                                                         *)
(* The ring operations (cbInit, cbIsFull, cbGetNextWrite, cbWrite,         *)
(* cbGetNextRead, cbRead) live in CircularBuffer.h/.c and the brightness   *)
(* and rotation setters in SmartMatrix.h; neither file is part of the      *)
(* sources at hand, so they are modelled from the specification's Row Slot *)
(* Ring contract (4.5, 3) and runtime controls (6).                        *)
(***************************************************************************)
EXTENDS Integers, Sequences, FiniteSets, TLC

VARIABLES
    pc,                  \* position of the main thread / producer
    pumpCaller,          \* who called matrixCalculations: "begin" | "isr" | "none"
    colorDepthRgb, dmaBufferNumRows, latchesPerRow,   \* constructor results
    dmaBuffer,           \* the CircularBuffer
    currentRow,          \* static unsigned char currentRow of matrixCalculations
    freeRowBuffer,       \* local of loadMatrixBuffers
    addressLUT, timerLUT,
    matrixUpdateBlocks,  \* [slot -> sequence over bit-planes of (addressValues, timerValues)]
    matrixUpdateData,    \* [slot -> logical row whose pixel words the slot holds]
    rotation, rotationChange, dimmingFactor, brightnessChange,
    baseLayer, nextLayer,
    addressSADDR, timerSADDR, dataSADDR,   \* slot the three source pointers reference
    isrAttached, dmaEnabled, timerRunning, softintPending,
    calls,               \* history: layer calls made in the current loop iteration
    iterStartRow,        \* history: currentRow when the current loop iteration began
    iterPending,         \* history: the pending flags when the current loop iteration began
    pumpEntryCount, pumpIters, pumpFrames, pumpPreempted,  \* history of the current pump() run
    addressLUTFills,     \* history: how many times the fill loop of addressLUT has run
    commitsSinceRefresh, \* history: rows committed since the last round of frame callbacks
    calcIn, calcOut, calcFor   \* a table or encoder calculation on its own: inputs,
                               \* output storage, inputs of the last run

vars == << pc, pumpCaller, colorDepthRgb, dmaBufferNumRows, latchesPerRow,
           dmaBuffer, currentRow, freeRowBuffer, addressLUT, timerLUT,
           matrixUpdateBlocks, matrixUpdateData,
           rotation, rotationChange, dimmingFactor, brightnessChange,
           baseLayer, nextLayer, addressSADDR, timerSADDR, dataSADDR,
           isrAttached, dmaEnabled, timerRunning, softintPending,
           calls, iterStartRow, iterPending,
           pumpEntryCount, pumpIters, pumpFrames, pumpPreempted,
           addressLUTFills, commitsSinceRefresh, calcIn, calcOut, calcFor >>

----------------------------------------------------------------------------
\* Bounds of the model

MaxBufferRows == 2
MaxLayers == 2
MaxRotation == 1
MatrixWidth == 32
MatrixHeight == 4

\* Program and platform constants

COLOR_CHANNELS_PER_PIXEL == 3
refreshRate == 135
F_BUS == 48000000
LATCH_TIMER_PULSE_WIDTH_NS == 438
MIN_BLOCK_PERIOD_PER_PIXEL_NS == 250
dimmingMaximum == 255
ADDX_PIN_0 == 3
ADDX_PIN_1 == 4
ADDX_PIN_2 == 1
ADDX_PIN_3 == 2

NULL == 0
NoRow == 0 - 1
NoPending == [rotation |-> FALSE, brightness |-> FALSE]
Layers == 1..MaxLayers
Rotations == 0..MaxRotation
BrightnessLevels == {dimmingMaximum, dimmingMaximum \div 2}

MATRIX_ROWS_PER_FRAME == MatrixHeight \div 2
MATRIX_ROW_PAIR_OFFSET == MatrixHeight \div 2
\* (uint32_t)(F_BUS * (X / 1000000000.0)), F_BUS a whole number of MHz
NS_TO_TICKS(X) == ((F_BUS \div 1000000) * X) \div 1000
LATCH_TIMER_PULSE_WIDTH_TICKS == NS_TO_TICKS(LATCH_TIMER_PULSE_WIDTH_NS)
\* TICKS_PER_ROW and MSB_BLOCK_TICKS for a panel of the given height
TicksPerRow(height) == (F_BUS \div refreshRate) \div (height \div 2)
MsbBlockTicks(height) == TicksPerRow(height) \div 2
TICKS_PER_ROW == TicksPerRow(MatrixHeight)
MSB_BLOCK_TICKS == MsbBlockTicks(MatrixHeight)
MIN_BLOCK_PERIOD_PER_PIXEL_TICKS == NS_TO_TICKS(MIN_BLOCK_PERIOD_PER_PIXEL_NS)

----------------------------------------------------------------------------
\* Integer helpers with the width of the C types

U16(x) == x % 65536
Shr(x, k) == x \div (2 ^ k)
BitAt(x, b) == (x \div (2 ^ b)) % 2
OrBit(x, b) == IF BitAt(x, b) = 1 THEN x ELSE x + 2 ^ b

RECURSIVE NotAndFrom(_, _, _)
NotAndFrom(x, mask, b) ==
    IF b > 15 THEN 0
    ELSE (IF BitAt(mask, b) = 1 /\ BitAt(x, b) = 0 THEN 2 ^ b ELSE 0)
         + NotAndFrom(x, mask, b + 1)
\* (~x) & mask, stored in a 16-bit field of an addresspair
NotAnd(x, mask) == NotAndFrom(x, mask, 0)

----------------------------------------------------------------------------
\* Row Slot Ring

cbInit(size) == [size |-> size, start |-> 0, end |-> 0, count |-> 0]
cbIsFull(cb) == cb.count = cb.size
cbIsEmpty(cb) == cb.count = 0
cbGetNextWrite(cb) == cb.end
cbWrite(cb) == [cb EXCEPT !.end = (cb.end + 1) % cb.size, !.count = cb.count + 1]
cbGetNextRead(cb) == cb.start
\* releaseRead advances the read cursor.  The contract is silent on a release
\* of an empty ring: both outcomes (cursor kept, cursor advanced) are possible.
cbRead(cb) ==
    IF cb.count > 0
    THEN {[cb EXCEPT !.start = (cb.start + 1) % cb.size, !.count = cb.count - 1]}
    ELSE {cb, [cb EXCEPT !.start = (cb.start + 1) % cb.size]}

\* slots committed by the producer and not yet released by the consumer
Committed(cb) == {(cb.start + k) % cb.size : k \in 0..(cb.count - 1)}

----------------------------------------------------------------------------
\* Layer chain

RECURSIVE ChainFrom(_)
ChainFrom(l) == IF l = NULL THEN << >> ELSE << l >> \o ChainFrom(nextLayer[l])
Chain == ChainFrom(baseLayer)

RECURSIVE LastLayer(_)
LastLayer(l) == IF nextLayer[l] = NULL THEN l ELSE LastLayer(nextLayer[l])

RECURSIVE Concat(_)
Concat(ss) == IF ss = << >> THEN << >> ELSE Head(ss) \o Concat(Tail(ss))

\* mutant of the rotation broadcast: only the base layer is told
RotationCalls_FirstOnly ==
    [i \in 1..(IF Len(Chain) > 0 THEN 1 ELSE 0) |-> << "setRotation", Chain[i], rotation >>]

\* while (templayer) { templayer->setRotation(rotation); templayer = templayer->nextLayer; }
RotationCalls == [i \in 1..Len(Chain) |-> << "setRotation", Chain[i], rotation >>]
\* mutant of the frame callbacks: only the base layer is notified
RefreshCalls_BaseLayerOnly ==
    Concat([i \in 1..(IF Len(Chain) > 0 THEN 1 ELSE 0) |->
              << << "setRefreshRate", Chain[i], refreshRate >>,
                 << "frameRefreshCallback", Chain[i], 0 >> >>])

RefreshCalls ==
    Concat([i \in 1..Len(Chain) |->
              << << "setRefreshRate", Chain[i], refreshRate >>,
                 << "frameRefreshCallback", Chain[i], 0 >> >>])
FillCalls(row) ==
    Concat([i \in 1..Len(Chain) |->
              << << "fillRefreshRow", Chain[i], row >>,
                 << "fillRefreshRow", Chain[i], row + MATRIX_ROW_PAIR_OFFSET >> >>])

----------------------------------------------------------------------------
\* Tables

\* mutant of the clamp: the period is padded, the on-time is not
TimerPair_PadsPeriodOnly(lpr, base, dead, df, dmax, minimum, i) ==
    LET budget == Shr(base, lpr - i - 1)
        period == U16(budget + dead)
        ontime == U16((budget * df) \div dmax + dead)
        padding == U16(minimum - period)
    IN  IF period < minimum
        THEN [timer_period |-> U16(period + padding), timer_oe |-> ontime]
        ELSE [timer_period |-> period, timer_oe |-> ontime]

\* mutant of the clamp: the padding is added to the period already stored
TimerPair_PadsStored(lpr, base, dead, df, dmax, minimum, i) ==
    LET budget == Shr(base, lpr - i - 1)
        period == U16(budget + dead)
        ontime == U16((budget * df) \div dmax + dead)
        padding == U16(minimum - period)
    IN  IF period < minimum
        THEN [timer_period |-> U16(calcOut[i + 1].timer_period + padding),
              timer_oe |-> U16(ontime + padding)]
        ELSE [timer_period |-> period, timer_oe |-> ontime]

\* one pass of the loop body of calculateTimerLut: base is MSB_BLOCK_TICKS,
\* dead LATCH_TIMER_PULSE_WIDTH_TICKS, minimum MIN_BLOCK_PERIOD_PER_PIXEL_TICKS
\* * matrixWidth; period, ontime and padding are uint16_t
TimerPair(lpr, base, dead, df, dmax, minimum, i) ==
    LET budget == Shr(base, lpr - i - 1)
        period == U16(budget + dead)
        ontime == U16((budget * df) \div dmax + dead)
        padding == U16(minimum - period)
    IN  IF period < minimum
        THEN [timer_period |-> U16(period + padding), timer_oe |-> U16(ontime + padding)]
        ELSE [timer_period |-> period, timer_oe |-> ontime]

TimerEntry(lpr, df, i) ==
    TimerPair(lpr, MSB_BLOCK_TICKS, LATCH_TIMER_PULSE_WIDTH_TICKS, df, dimmingMaximum,
              MIN_BLOCK_PERIOD_PER_PIXEL_TICKS * MatrixWidth, i)

\* timerLUT[i] of the code is element i + 1 of the sequence
calculateTimerLut(lpr, df) == [k \in 1..lpr |-> TimerEntry(lpr, df, k - 1)]

ADDX_PIN_MASK == 2 ^ ADDX_PIN_0 + 2 ^ ADDX_PIN_1 + 2 ^ ADDX_PIN_2 + 2 ^ ADDX_PIN_3

\* mutant of the address loop: the test of i & 0x04 sets ADDX_PIN_1 again
AddressEntry_Pin1Twice(i) ==
    LET s0 == 0
        s1 == IF BitAt(i, 0) = 1 THEN OrBit(s0, ADDX_PIN_0) ELSE s0
        s2 == IF BitAt(i, 1) = 1 THEN OrBit(s1, ADDX_PIN_1) ELSE s1
        s3 == IF BitAt(i, 2) = 1 THEN OrBit(s2, ADDX_PIN_1) ELSE s2
        s4 == IF BitAt(i, 3) = 1 THEN OrBit(s3, ADDX_PIN_3) ELSE s3
    IN  [bits_to_set |-> s4, bits_to_clear |-> NotAnd(s4, ADDX_PIN_MASK)]

AddressEntry(i) ==
    LET s0 == 0
        s1 == IF BitAt(i, 0) = 1 THEN OrBit(s0, ADDX_PIN_0) ELSE s0
        s2 == IF BitAt(i, 1) = 1 THEN OrBit(s1, ADDX_PIN_1) ELSE s1
        s3 == IF BitAt(i, 2) = 1 THEN OrBit(s2, ADDX_PIN_2) ELSE s2
        s4 == IF BitAt(i, 3) = 1 THEN OrBit(s3, ADDX_PIN_3) ELSE s3
    IN  [bits_to_set |-> s4, bits_to_clear |-> NotAnd(s4, ADDX_PIN_MASK)]

\* for (i = 0; i < MATRIX_ROWS_PER_FRAME; i++) { addressLUT[i] = ...; }
FillAddressLUTOf(rows) == [i \in 0..(rows - 1) |-> AddressEntry(i)]

\* addressLUT[i] of the code is element i of the function over 0..rows-1
FillAddressLUT == FillAddressLUTOf(MATRIX_ROWS_PER_FRAME)

ZeroAddress == [bits_to_set |-> 0, bits_to_clear |-> 0]
ZeroTimer == [timer_period |-> 0, timer_oe |-> 0]
ZeroBlock == [addressValues |-> ZeroAddress, timerValues |-> ZeroTimer]

----------------------------------------------------------------------------
\* State after construction

InitProgram(depth, bufferrows, layers) ==
    /\ pc = "constructed"
    /\ pumpCaller = "none"
    /\ colorDepthRgb = depth
    /\ dmaBufferNumRows = bufferrows
    /\ latchesPerRow = depth \div COLOR_CHANNELS_PER_PIXEL
    /\ dmaBuffer = cbInit(0)
    /\ currentRow = 0
    /\ freeRowBuffer = 0
    /\ addressLUT = [i \in 0..(MATRIX_ROWS_PER_FRAME - 1) |-> ZeroAddress]
    /\ timerLUT = [k \in 1..(depth \div COLOR_CHANNELS_PER_PIXEL) |-> ZeroTimer]
    /\ matrixUpdateBlocks =
           [s \in 0..(bufferrows - 1) |->
               [k \in 1..(depth \div COLOR_CHANNELS_PER_PIXEL) |-> ZeroBlock]]
    /\ matrixUpdateData = [s \in 0..(bufferrows - 1) |-> NoRow]
    /\ rotation = 0
    /\ rotationChange = FALSE
    /\ dimmingFactor = dimmingMaximum
    /\ brightnessChange = FALSE
    /\ baseLayer = NULL
    /\ nextLayer = [l \in layers |-> NULL]
    /\ addressSADDR = 0
    /\ timerSADDR = 0
    /\ dataSADDR = 0
    /\ isrAttached = FALSE
    /\ dmaEnabled = FALSE
    /\ timerRunning = FALSE
    /\ softintPending = FALSE
    /\ calls = << >>
    /\ iterStartRow = NoRow
    /\ iterPending = NoPending
    /\ pumpEntryCount = 0
    /\ pumpIters = 0
    /\ pumpFrames = 0
    /\ pumpPreempted = FALSE
    /\ addressLUTFills = 0
    /\ commitsSinceRefresh = NoRow

\* no calculation is run on its own
NoCalc == [none |-> TRUE]

InitWith(depth, bufferrows) ==
    /\ InitProgram(depth, bufferrows, Layers)
    /\ calcIn = NoCalc
    /\ calcOut = NoCalc
    /\ calcFor = NoCalc

\* a valid configuration: 24-bit colour, at least two ring slots
Init == \E bufferrows \in 2..MaxBufferRows : InitWith(24, bufferrows)

\* any configuration the constructor accepts
InitAnyConfig ==
    \E depth \in {0, 2, 24}, bufferrows \in 0..MaxBufferRows : InitWith(depth, bufferrows)

----------------------------------------------------------------------------
cfgVars == << colorDepthRgb, dmaBufferNumRows, latchesPerRow >>
layerVars == << baseLayer, nextLayer >>
ptrVars == << addressSADDR, timerSADDR, dataSADDR >>
hwVars == << isrAttached, dmaEnabled, timerRunning >>
slotVars == << matrixUpdateBlocks, matrixUpdateData >>
ctlVars == << rotation, rotationChange, dimmingFactor, brightnessChange >>
histVars == << pumpEntryCount, pumpIters, pumpFrames, pumpPreempted >>
calcVars == << calcIn, calcOut, calcFor >>

\* the producer is inside matrixCalculations
InPump == pc \in {"while", "rotation", "refresh", "brightness", "brightness_clear",
                  "advance", "load_blocks", "load_fill", "load_data", "cbWrite", "return"}

\* the main thread runs: no begin() in progress, no interrupt handler active or pending
MainThreadRuns ==
    /\ pc \in {"constructed", "idle"}
    /\ ~(softintPending /\ isrAttached)

----------------------------------------------------------------------------
\* addLayer

\* mutant of addLayer: the new layer is linked in front of the chain
AddLayer_Prepends(newlayer) ==
    /\ pc = "constructed"
    /\ \A i \in 1..Len(Chain) : Chain[i] # newlayer
    /\ nextLayer' = [nextLayer EXCEPT ![newlayer] = baseLayer]
    /\ baseLayer' = newlayer
    /\ UNCHANGED << pc, pumpCaller, cfgVars, calcVars, addressLUTFills, commitsSinceRefresh, dmaBuffer,
                    currentRow, freeRowBuffer, addressLUT, timerLUT, slotVars, ctlVars,
                    ptrVars, hwVars, softintPending, calls, iterStartRow, iterPending,
                    histVars >>

AddLayer(newlayer) ==
    /\ pc = "constructed"
    /\ \A i \in 1..Len(Chain) : Chain[i] # newlayer
    /\ IF baseLayer # NULL
       THEN /\ nextLayer' = [nextLayer EXCEPT ![LastLayer(baseLayer)] = newlayer]
            /\ UNCHANGED baseLayer
       ELSE /\ baseLayer' = newlayer
            /\ UNCHANGED nextLayer
    /\ UNCHANGED << pc, pumpCaller, cfgVars, calcVars, addressLUTFills, commitsSinceRefresh, dmaBuffer, currentRow, freeRowBuffer,
                    addressLUT, timerLUT, slotVars, ctlVars, ptrVars, hwVars,
                    softintPending, calls, iterStartRow, iterPending, histVars >>

----------------------------------------------------------------------------
\* Runtime controls: store the value and raise the pending flag

SetBrightness(b) ==
    /\ MainThreadRuns
    /\ b # dimmingFactor
    /\ dimmingFactor' = b
    /\ brightnessChange' = TRUE
    /\ UNCHANGED << pc, pumpCaller, cfgVars, calcVars, addressLUTFills, commitsSinceRefresh, dmaBuffer, currentRow, freeRowBuffer,
                    addressLUT, timerLUT, slotVars, rotation, rotationChange,
                    layerVars, ptrVars, hwVars, softintPending, calls, iterStartRow, iterPending,
                    histVars >>

SetRotation(r) ==
    /\ MainThreadRuns
    /\ r # rotation
    /\ rotation' = r
    /\ rotationChange' = TRUE
    /\ UNCHANGED << pc, pumpCaller, cfgVars, calcVars, addressLUTFills, commitsSinceRefresh, dmaBuffer, currentRow, freeRowBuffer,
                    addressLUT, timerLUT, slotVars, dimmingFactor, brightnessChange,
                    layerVars, ptrVars, hwVars, softintPending, calls, iterStartRow, iterPending,
                    histVars >>

----------------------------------------------------------------------------
\* begin()

BeginCbInit ==
    /\ pc = "constructed"
    /\ dmaBuffer' = cbInit(dmaBufferNumRows)
    /\ pc' = "begin_addressLUT"
    /\ UNCHANGED << pumpCaller, cfgVars, calcVars, addressLUTFills, commitsSinceRefresh, currentRow, freeRowBuffer, addressLUT,
                    timerLUT, slotVars, ctlVars, layerVars, ptrVars, hwVars,
                    softintPending, calls, iterStartRow, iterPending, histVars >>

BeginAddressLUT ==
    /\ pc = "begin_addressLUT"
    /\ addressLUT' = FillAddressLUT
    /\ addressLUTFills' = addressLUTFills + 1
    /\ pc' = "begin_timerLUT"
    /\ UNCHANGED << pumpCaller, cfgVars, calcVars, commitsSinceRefresh, dmaBuffer, currentRow, freeRowBuffer,
                    timerLUT, slotVars, ctlVars, layerVars, ptrVars, hwVars,
                    softintPending, calls, iterStartRow, iterPending, histVars >>

BeginTimerLUT ==
    /\ pc = "begin_timerLUT"
    /\ timerLUT' = calculateTimerLut(latchesPerRow, dimmingFactor)
    /\ pc' = "begin_fill"
    /\ UNCHANGED << pumpCaller, cfgVars, calcVars, addressLUTFills, commitsSinceRefresh, dmaBuffer, currentRow, freeRowBuffer,
                    addressLUT, slotVars, ctlVars, layerVars, ptrVars, hwVars,
                    softintPending, calls, iterStartRow, iterPending, histVars >>

\* mutant of begin(): the ring is not filled before the handlers are attached
BeginMatrixCalculations_NoFill ==
    /\ pc = "begin_fill"
    /\ pc' = "begin_attach"
    /\ UNCHANGED << pumpCaller, cfgVars, calcVars, addressLUTFills, commitsSinceRefresh,
                    dmaBuffer, currentRow, freeRowBuffer, addressLUT, timerLUT, slotVars,
                    ctlVars, layerVars, ptrVars, hwVars, softintPending, calls,
                    iterStartRow, iterPending, histVars >>

\* "fill buffer with data before enabling DMA": the call of matrixCalculations
BeginMatrixCalculations ==
    /\ pc = "begin_fill"
    /\ pc' = "while"
    /\ pumpCaller' = "begin"
    /\ pumpEntryCount' = dmaBuffer.count
    /\ pumpIters' = 0
    /\ pumpFrames' = 0
    /\ pumpPreempted' = FALSE
    /\ UNCHANGED << cfgVars, calcVars, addressLUTFills, commitsSinceRefresh, dmaBuffer, currentRow, freeRowBuffer, addressLUT,
                    timerLUT, slotVars, ctlVars, layerVars, ptrVars, hwVars,
                    softintPending, calls, iterStartRow, iterPending >>

BeginAttachInterrupts ==
    /\ pc = "begin_attach"
    /\ isrAttached' = TRUE
    /\ pc' = "begin_enable"
    /\ UNCHANGED << pumpCaller, cfgVars, calcVars, addressLUTFills, commitsSinceRefresh, dmaBuffer, currentRow, freeRowBuffer,
                    addressLUT, timerLUT, slotVars, ctlVars, layerVars, ptrVars,
                    dmaEnabled, timerRunning, softintPending, calls, iterStartRow, iterPending,
                    histVars >>

BeginEnableChannels ==
    /\ pc = "begin_enable"
    /\ dmaEnabled' = TRUE
    /\ pc' = "begin_timer"
    /\ UNCHANGED << pumpCaller, cfgVars, calcVars, addressLUTFills, commitsSinceRefresh, dmaBuffer, currentRow, freeRowBuffer,
                    addressLUT, timerLUT, slotVars, ctlVars, layerVars, ptrVars,
                    isrAttached, timerRunning, softintPending, calls, iterStartRow, iterPending,
                    histVars >>

BeginStartTimer ==
    /\ pc = "begin_timer"
    /\ timerRunning' = TRUE
    /\ pc' = "idle"
    /\ UNCHANGED << pumpCaller, cfgVars, calcVars, addressLUTFills, commitsSinceRefresh, dmaBuffer, currentRow, freeRowBuffer,
                    addressLUT, timerLUT, slotVars, ctlVars, layerVars, ptrVars,
                    isrAttached, dmaEnabled, softintPending, calls, iterStartRow, iterPending,
                    histVars >>

----------------------------------------------------------------------------
\* matrixCalculations

\* mutants of the loop condition: never stop; stop one slot short of full
WhileGuard_Always == TRUE
WhileGuard_StopsShort == dmaBuffer.count + 1 < dmaBuffer.size

\* while (!cbIsFull(&dmaBuffer))
WhileGuard == ~cbIsFull(dmaBuffer)

\* mutant of the frame-boundary test: once-per-frame updates on every row
FrameBoundary_Always == TRUE

\* if (!currentRow)
FrameBoundary == currentRow = 0

\* mutant of the row advance: the cursor is left where it is
NextRow_Stays(r) == r

\* if (++currentRow >= MATRIX_ROWS_PER_FRAME) currentRow = 0; on an unsigned char
NextRow(r) ==
    IF (r + 1) % 256 >= MATRIX_ROWS_PER_FRAME THEN 0 ELSE (r + 1) % 256

PumpWhile ==
    /\ pc = "while"
    /\ calls' = << >>
    /\ IF WhileGuard
       THEN /\ iterStartRow' = currentRow
            /\ iterPending' = [rotation |-> rotationChange, brightness |-> brightnessChange]
            /\ pc' = IF FrameBoundary THEN "rotation" ELSE "advance"
       ELSE /\ iterStartRow' = NoRow
            /\ iterPending' = NoPending
            /\ pc' = "return"
    /\ UNCHANGED << pumpCaller, cfgVars, calcVars, addressLUTFills, commitsSinceRefresh, dmaBuffer, currentRow, freeRowBuffer,
                    addressLUT, timerLUT, slotVars, ctlVars, layerVars, ptrVars, hwVars,
                    softintPending, histVars >>

\* mutant of the rotation step: it also runs the fill loop of addressLUT
PumpRotation_RebuildsTable ==
    /\ pc = "rotation"
    /\ IF rotationChange
       THEN /\ calls' = calls \o RotationCalls
            /\ rotationChange' = FALSE
            /\ addressLUT' = FillAddressLUT
            /\ addressLUTFills' = addressLUTFills + 1
       ELSE UNCHANGED << calls, rotationChange, addressLUT, addressLUTFills >>
    /\ pc' = "refresh"
    /\ UNCHANGED << pumpCaller, cfgVars, calcVars, commitsSinceRefresh, dmaBuffer, currentRow, freeRowBuffer,
                    timerLUT, slotVars, rotation, dimmingFactor,
                    brightnessChange, layerVars, ptrVars, hwVars, softintPending,
                    iterStartRow, iterPending, histVars >>

\* if (rotationChange) { every layer: setRotation(rotation); rotationChange = false; }
PumpRotation ==
    /\ pc = "rotation"
    /\ IF rotationChange
       THEN /\ calls' = calls \o RotationCalls
            /\ rotationChange' = FALSE
       ELSE UNCHANGED << calls, rotationChange >>
    /\ pc' = "refresh"
    /\ UNCHANGED << pumpCaller, cfgVars, calcVars, addressLUTFills, commitsSinceRefresh, dmaBuffer, currentRow, freeRowBuffer,
                    addressLUT, timerLUT, slotVars, rotation, dimmingFactor,
                    brightnessChange, layerVars, ptrVars, hwVars, softintPending,
                    iterStartRow, iterPending, histVars >>

\* every layer: setRefreshRate(refreshRate); frameRefreshCallback();
PumpRefresh ==
    /\ pc = "refresh"
    /\ calls' = calls \o RefreshCalls
    /\ pumpFrames' = IF pumpPreempted THEN 0 ELSE pumpFrames + 1
    /\ commitsSinceRefresh' = 0
    /\ pc' = "brightness"
    /\ UNCHANGED << pumpCaller, cfgVars, calcVars, addressLUTFills, dmaBuffer, currentRow, freeRowBuffer,
                    addressLUT, timerLUT, slotVars, ctlVars, layerVars, ptrVars, hwVars,
                    softintPending, iterStartRow, iterPending, pumpEntryCount, pumpIters,
                    pumpPreempted >>

\* mutant of the brightness update: the flag is cleared, the table is not rebuilt
PumpBrightness_KeepsTable ==
    /\ pc = "brightness"
    /\ brightnessChange' = FALSE
    /\ pc' = "advance"
    /\ UNCHANGED << pumpCaller, cfgVars, calcVars, addressLUTFills, commitsSinceRefresh, dmaBuffer, currentRow, freeRowBuffer,
                    addressLUT, timerLUT, slotVars, rotation, rotationChange,
                    dimmingFactor, layerVars, ptrVars, hwVars, softintPending, calls,
                    iterStartRow, iterPending, histVars >>

\* if (brightnessChange) { calculateTimerLut(); brightnessChange = false; }
PumpBrightness ==
    /\ pc = "brightness"
    /\ IF brightnessChange
       THEN /\ timerLUT' = calculateTimerLut(latchesPerRow, dimmingFactor)
            /\ brightnessChange' = FALSE
       ELSE UNCHANGED << timerLUT, brightnessChange >>
    /\ pc' = "advance"
    /\ UNCHANGED << pumpCaller, cfgVars, calcVars, addressLUTFills, commitsSinceRefresh, dmaBuffer, currentRow, freeRowBuffer,
                    addressLUT, slotVars, rotation, rotationChange, dimmingFactor,
                    layerVars, ptrVars, hwVars, softintPending, calls, iterStartRow, iterPending,
                    histVars >>

PumpAdvanceRow ==
    /\ pc = "advance"
    /\ currentRow' = NextRow(currentRow)
    /\ pc' = "load_blocks"
    /\ UNCHANGED << pumpCaller, cfgVars, calcVars, addressLUTFills, commitsSinceRefresh, dmaBuffer, freeRowBuffer, addressLUT,
                    timerLUT, slotVars, ctlVars, layerVars, ptrVars, hwVars,
                    softintPending, calls, iterStartRow, iterPending, histVars >>

----------------------------------------------------------------------------
\* loadMatrixBuffers(currentRow)

\* the address/timing blocks written for one slot
SlotBlocks(row) ==
    [k \in 1..latchesPerRow |->
        [addressValues |-> addressLUT[row], timerValues |-> timerLUT[k]]]

\* the slot loadMatrixBuffers writes into
WriteSlot == cbGetNextWrite(dmaBuffer)

LoadBlocks ==
    /\ pc = "load_blocks"
    /\ freeRowBuffer' = WriteSlot
    /\ matrixUpdateBlocks' =
           [matrixUpdateBlocks EXCEPT ![WriteSlot] = SlotBlocks(currentRow)]
    /\ pc' = "load_fill"
    /\ UNCHANGED << pumpCaller, cfgVars, calcVars, addressLUTFills, commitsSinceRefresh, dmaBuffer, currentRow, addressLUT,
                    timerLUT, matrixUpdateData, ctlVars, layerVars, ptrVars, hwVars,
                    softintPending, calls, iterStartRow, iterPending, histVars >>

\* every layer: fillRefreshRow(currentRow, ..); fillRefreshRow(currentRow + OFFSET, ..)
LoadFill ==
    /\ pc = "load_fill"
    /\ calls' = calls \o FillCalls(currentRow)
    /\ pc' = "load_data"
    /\ UNCHANGED << pumpCaller, cfgVars, calcVars, addressLUTFills, commitsSinceRefresh, dmaBuffer, currentRow, freeRowBuffer,
                    addressLUT, timerLUT, slotVars, ctlVars, layerVars, ptrVars, hwVars,
                    softintPending, iterStartRow, iterPending, histVars >>

\* the pixel words of the row pair, written into the slot's data area
LoadData ==
    /\ pc = "load_data"
    /\ matrixUpdateData' = [matrixUpdateData EXCEPT ![freeRowBuffer] = currentRow]
    /\ pc' = "cbWrite"
    /\ UNCHANGED << pumpCaller, cfgVars, calcVars, addressLUTFills, commitsSinceRefresh, dmaBuffer, currentRow, freeRowBuffer,
                    addressLUT, timerLUT, matrixUpdateBlocks, ctlVars, layerVars,
                    ptrVars, hwVars, softintPending, calls, iterStartRow, iterPending, histVars >>

\* the commits since the last round of frame callbacks, counted from the first
\* round on and no further than one past a frame
CountCommit(n) ==
    IF n = NoRow \/ n > MATRIX_ROWS_PER_FRAME THEN n ELSE n + 1

PumpCbWrite ==
    /\ pc = "cbWrite"
    /\ dmaBuffer' = cbWrite(dmaBuffer)
    /\ pumpIters' = IF pumpPreempted THEN 0 ELSE pumpIters + 1
    /\ commitsSinceRefresh' = CountCommit(commitsSinceRefresh)
    /\ pc' = "while"
    /\ UNCHANGED << pumpCaller, cfgVars, calcVars, addressLUTFills, currentRow, freeRowBuffer, addressLUT,
                    timerLUT, slotVars, ctlVars, layerVars, ptrVars, hwVars,
                    softintPending, calls, iterStartRow, iterPending, pumpEntryCount, pumpFrames,
                    pumpPreempted >>

PumpReturn ==
    /\ pc = "return"
    /\ pc' = IF pumpCaller = "begin" THEN "begin_attach" ELSE "idle"
    /\ pumpCaller' = "none"
    /\ pumpEntryCount' = 0
    /\ pumpIters' = 0
    /\ pumpFrames' = 0
    /\ pumpPreempted' = FALSE
    /\ UNCHANGED << cfgVars, calcVars, addressLUTFills, commitsSinceRefresh, dmaBuffer, currentRow, freeRowBuffer, addressLUT,
                    timerLUT, slotVars, ctlVars, layerVars, ptrVars, hwVars,
                    softintPending, calls, iterStartRow, iterPending >>

----------------------------------------------------------------------------
\* Interrupt handlers

\* the pended software interrupt, lowest priority: runs when nothing else does
RowCalculationISR ==
    /\ pc = "idle"
    /\ isrAttached
    /\ softintPending
    /\ softintPending' = FALSE
    /\ pc' = "while"
    /\ pumpCaller' = "isr"
    /\ pumpEntryCount' = dmaBuffer.count
    /\ pumpIters' = 0
    /\ pumpFrames' = 0
    /\ pumpPreempted' = FALSE
    /\ UNCHANGED << cfgVars, calcVars, addressLUTFills, commitsSinceRefresh, dmaBuffer, currentRow, freeRowBuffer, addressLUT,
                    timerLUT, slotVars, ctlVars, layerVars, ptrVars, hwVars, calls,
                    iterStartRow, iterPending >>

\* mutant of the handler: the source pointers are set before the release
RowShiftCompleteISR_PointersFirst ==
    /\ isrAttached
    /\ dmaEnabled
    /\ timerRunning
    /\ \E cb \in cbRead(dmaBuffer) :
          /\ dmaBuffer' = cb
          /\ addressSADDR' = cbGetNextRead(dmaBuffer)
          /\ timerSADDR' = cbGetNextRead(dmaBuffer)
          /\ dataSADDR' = cbGetNextRead(dmaBuffer)
    /\ softintPending' = TRUE
    /\ pumpPreempted' = InPump
    /\ pumpEntryCount' = 0
    /\ pumpIters' = 0
    /\ pumpFrames' = 0
    /\ UNCHANGED << pc, pumpCaller, cfgVars, calcVars, addressLUTFills, commitsSinceRefresh, currentRow, freeRowBuffer,
                    addressLUT, timerLUT, slotVars, ctlVars, layerVars, isrAttached,
                    dmaEnabled, timerRunning, calls, iterStartRow, iterPending >>

\* the shift-complete interrupt: preempts the main thread and the producer anywhere
RowShiftCompleteISR ==
    /\ isrAttached
    /\ dmaEnabled
    /\ timerRunning
    /\ \E cb \in cbRead(dmaBuffer) :
          /\ dmaBuffer' = cb
          /\ addressSADDR' = cbGetNextRead(cb)
          /\ timerSADDR' = cbGetNextRead(cb)
          /\ dataSADDR' = cbGetNextRead(cb)
    /\ softintPending' = TRUE
    \* the history of a pump() run is kept only while no release interleaves
    /\ pumpPreempted' = InPump
    /\ pumpEntryCount' = 0
    /\ pumpIters' = 0
    /\ pumpFrames' = 0
    /\ UNCHANGED << pc, pumpCaller, cfgVars, calcVars, addressLUTFills, commitsSinceRefresh, currentRow, freeRowBuffer,
                    addressLUT, timerLUT, slotVars, ctlVars, layerVars, isrAttached,
                    dmaEnabled, timerRunning, calls, iterStartRow, iterPending >>

----------------------------------------------------------------------------
StartupNext ==
    \/ \E l \in Layers : AddLayer(l)
    \/ \E b \in BrightnessLevels : SetBrightness(b)
    \/ \E r \in Rotations : SetRotation(r)
    \/ BeginCbInit
    \/ BeginAddressLUT
    \/ BeginTimerLUT
    \/ BeginMatrixCalculations
    \/ BeginAttachInterrupts
    \/ BeginEnableChannels
    \/ BeginStartTimer
    \/ PumpWhile
    \/ PumpRotation
    \/ PumpRefresh
    \/ PumpBrightness
    \/ PumpAdvanceRow
    \/ LoadBlocks
    \/ LoadFill
    \/ LoadData
    \/ PumpCbWrite
    \/ PumpReturn

Next ==
    \/ StartupNext
    \/ RowCalculationISR
    \/ RowShiftCompleteISR

Spec == Init /\ [][Next]_vars

\* any configuration the constructor accepts, up to the end of begin()
SpecStartup == InitAnyConfig /\ [][StartupNext]_vars

----------------------------------------------------------------------------
\* Vocabulary of the properties

\* loadMatrixBuffers has started writing slot freeRowBuffer and has not committed it
Encoding == pc \in {"load_fill", "load_data", "cbWrite"}

\* the pipeline has been started by begin()
Running == isrAttached /\ dmaEnabled /\ timerRunning

\* the slots the three source pointers reference
HardwareSlots == {addressSADDR, timerSADDR, dataSADDR}

----------------------------------------------------------------------------
\* C1: once the pipeline runs, the slot the producer is writing (address and
\* timing blocks, pixel data) is never a slot that is committed and not yet
\* released, nor the slot the hardware source pointers reference.
C1_ProducerWritesOnlyFreeSlot ==
    (Running /\ Encoding) =>
        /\ freeRowBuffer \notin Committed(dmaBuffer)
        /\ freeRowBuffer \notin HardwareSlots

\* C2: once the pipeline runs, the slot the address, timing and data source
\* pointers are set to is a slot the producer has committed and the consumer
\* has not released.
C2_HardwareOnCommittedSlot ==
    Running => HardwareSlots \subseteq Committed(dmaBuffer)

\* C3: the number of committed-but-unreleased slots never exceeds the ring
\* capacity bufferRows (and the ring begin() initialised has that capacity).
C3_CountWithinCapacity ==
    /\ dmaBuffer.count >= 0
    /\ dmaBuffer.count <= dmaBufferNumRows
    /\ pc \notin {"constructed"} => dmaBuffer.size = dmaBufferNumRows

\* C3 witness: the producer has refilled the ring to capacity after the
\* consumer released a slot during the same run of matrixCalculations.
C3_Witness ==
    /\ Running
    /\ pumpPreempted
    /\ pc = "return"
    /\ dmaBuffer.count = dmaBufferNumRows

\* C4: a shift-complete event that finds no committed slot besides the one
\* just consumed stalls: the read cursor and the three source pointers keep
\* their values.
C4_UnderrunStalls ==
    [][(RowShiftCompleteISR /\ dmaBuffer.count <= 1) =>
          /\ dmaBuffer'.start = dmaBuffer.start
          /\ addressSADDR' = addressSADDR
          /\ timerSADDR' = timerSADDR
          /\ dataSADDR' = dataSADDR]_vars

\* C5: rows are consumed in the order committed: every shift-complete event
\* moves the hardware to a committed slot, and that slot holds the row that
\* follows, in the producer's cyclic commit order, the row of the slot the
\* hardware leaves.
C5_ConsumedInCommitOrder ==
    [][RowShiftCompleteISR =>
          /\ dataSADDR' \in Committed(dmaBuffer')
          /\ matrixUpdateData[dataSADDR'] = NextRow(matrixUpdateData[dataSADDR])]_vars

----------------------------------------------------------------------------
\* one loop iteration of matrixCalculations is in progress
AfterRotation == pc \in {"refresh", "brightness", "advance", "load_blocks",
                         "load_fill", "load_data", "cbWrite"}
InIteration == pc = "rotation" \/ AfterRotation

\* the layers told setRotation in the current iteration, in call order
SetRotationCalls == SelectSeq(calls, LAMBDA c : c[1] = "setRotation")
SetRotationTargets == [i \in 1..Len(SetRotationCalls) |-> SetRotationCalls[i][2]]

\* the timing pairs stored in the blocks of a slot
SlotTimers(slot) ==
    [k \in 1..latchesPerRow |-> matrixUpdateBlocks[slot][k].timerValues]

\* C6: the Timing Table is written by begin() and after that only in the
\* brightness step of a loop iteration that began at logical row 0; the
\* brightness-pending flag is cleared only there; and a row encoded in an
\* iteration that began at a non-zero row carries the table as it stands,
\* pending request or not.
C6_TimingTableOnlyAtRowZero ==
    /\ [][/\ (timerLUT' # timerLUT) =>
                \/ pc = "begin_timerLUT"
                \/ (pc = "brightness" /\ iterStartRow = 0)
          /\ (brightnessChange /\ ~brightnessChange') =>
                (pc = "brightness" /\ iterStartRow = 0)]_vars
    /\ []((Encoding /\ iterStartRow # 0) =>
             /\ SlotTimers(freeRowBuffer) = timerLUT
             /\ brightnessChange = iterPending.brightness)

\* C6 witness: a brightness request is pending at a non-zero row, the table
\* still holds the old values, and a row has just been encoded with them.
C6_Witness ==
    /\ Running
    /\ Encoding
    /\ iterStartRow # 0
    /\ brightnessChange
    /\ timerLUT # calculateTimerLut(latchesPerRow, dimmingFactor)
    /\ SlotTimers(freeRowBuffer) = timerLUT

\* C7: when the brightness flag is set before the frame-boundary check of an
\* iteration that begins at logical row 0, the table is rebuilt from the
\* requested brightness before the encode of that iteration, and the slot
\* encoded carries the new timing values.
C7_ChangeAtRowZeroReflected ==
    (Encoding /\ iterStartRow = 0 /\ iterPending.brightness) =>
        /\ ~brightnessChange
        /\ timerLUT = calculateTimerLut(latchesPerRow, dimmingFactor)
        /\ SlotTimers(freeRowBuffer) = calculateTimerLut(latchesPerRow, dimmingFactor)

\* C7 witness: after start, a request for a dimmer brightness was pending at
\* row 0 and the row of that iteration has been encoded.
C7_Witness ==
    /\ Running
    /\ Encoding
    /\ iterStartRow = 0
    /\ iterPending.brightness
    /\ dimmingFactor # dimmingMaximum

\* C8: in an iteration that begins at logical row 0 with a rotation pending,
\* setRotation(rotation) reaches every layer of the chain exactly once, in
\* chain order, and the flag is cleared; in any other iteration no layer
\* receives setRotation; the flag is cleared nowhere else and is left
\* unchanged throughout an iteration that began at a non-zero row.
C8_RotationOnlyAtRowZero ==
    /\ []((AfterRotation /\ iterStartRow = 0 /\ iterPending.rotation) =>
             /\ SetRotationTargets = Chain
             /\ \A i \in 1..Len(SetRotationCalls) : SetRotationCalls[i][3] = rotation
             /\ ~rotationChange)
    /\ []((InIteration /\ ~(iterStartRow = 0 /\ iterPending.rotation)) =>
             SetRotationCalls = << >>)
    /\ [][/\ (rotationChange /\ ~rotationChange') =>
                (pc = "rotation" /\ iterStartRow = 0)
          /\ (InIteration /\ iterStartRow # 0) =>
                rotationChange' = rotationChange]_vars

\* C8 witness: a pending rotation has been broadcast to a chain of two layers.
C8_Witness ==
    /\ Running
    /\ AfterRotation
    /\ iterStartRow = 0
    /\ iterPending.rotation
    /\ Len(Chain) = 2

\* C9: a fatal configuration (no bit-planes, no ring slots, a zero brightness
\* denominator) keeps begin() from enabling the transfer channels and the timer.
FatalConfiguration ==
    \/ latchesPerRow = 0
    \/ dmaBufferNumRows = 0
    \/ dimmingMaximum = 0

C9_FatalConfigurationRejected ==
    FatalConfiguration => (~dmaEnabled /\ ~timerRunning)

\* a step of the producer inside matrixCalculations
ProducerStep ==
    \/ PumpWhile
    \/ PumpRotation
    \/ PumpRefresh
    \/ PumpBrightness
    \/ PumpAdvanceRow
    \/ LoadBlocks
    \/ LoadFill
    \/ LoadData
    \/ PumpCbWrite
    \/ PumpReturn

\* C10: matrixCalculations never waits (its next step is always enabled); a
\* run that no consumer release interleaved has, at its return, committed
\* exactly capacity - (count at entry) rows and left the ring full; a run
\* entered with a full ring has encoded nothing, committed nothing and applied
\* no once-per-frame update.
C10_PumpFillsAndReturns ==
    /\ InPump => ENABLED ProducerStep
    /\ (pc = "return" /\ ~pumpPreempted) =>
          /\ pumpIters = dmaBufferNumRows - pumpEntryCount
          /\ cbIsFull(dmaBuffer)
          /\ (pumpEntryCount = dmaBufferNumRows) =>
                (pumpIters = 0 /\ pumpFrames = 0 /\ calls = << >>)

\* C10 witness: a run pended by the consumer refilled the released slots
\* without being interrupted and is about to return.
C10_Witness ==
    /\ Running
    /\ pumpCaller = "isr"
    /\ pc = "return"
    /\ ~pumpPreempted
    /\ pumpIters >= 1

----------------------------------------------------------------------------
----------------------------------------------------------------------------
\* calculateTimerLut on its own: the inputs are drawn from the configurations
\* the constructor stores and from the brightness values of the setter; the
\* table may be recomputed any number of times, with or without a change of
\* brightness in between

progVars == << pc, pumpCaller, cfgVars, dmaBuffer, currentRow, freeRowBuffer,
               addressLUT, timerLUT, slotVars, ctlVars, layerVars, ptrVars, hwVars,
               softintPending, calls, iterStartRow, iterPending, histVars,
               addressLUTFills, commitsSinceRefresh >>

PanelHeights == {4, 16, 32}
PanelWidths == {32, 64}
ColorDepths == {24, 36, 48}
DimmingFactors == {0, 127, 128, dimmingMaximum}

\* what calculateTimerLut reads for a panel of the given geometry and depth
TimerInput(height, width, depth, df) ==
    [lpr |-> depth \div COLOR_CHANNELS_PER_PIXEL,
     base |-> MsbBlockTicks(height),
     dead |-> LATCH_TIMER_PULSE_WIDTH_TICKS,
     df |-> df,
     dmax |-> dimmingMaximum,
     minimum |-> MIN_BLOCK_PERIOD_PER_PIXEL_TICKS * width]

\* four bit-planes, a base unit of 256 ticks, a dead time of 10 ticks
ExampleInput(minimum) ==
    [lpr |-> 4, base |-> 256, dead |-> 10, df |-> 128, dmax |-> 255, minimum |-> minimum]

TimerInputs ==
    {TimerInput(h, w, d, df) :
        h \in PanelHeights, w \in PanelWidths, d \in ColorDepths, df \in DimmingFactors}
    \cup {ExampleInput(0), ExampleInput(100)}

\* for (i = 0; i < latchesPerRow; i++) { ... timerLUT[i] = (period, ontime); }
TimerTable(in) ==
    [k \in 1..in.lpr |->
        TimerPair(in.lpr, in.base, in.dead, in.df, in.dmax, in.minimum, k - 1)]

\* calcFor: the inputs of the last run, and whether that run was a re-run on
\* the inputs of the run before it
InitTimerLut ==
    /\ InitProgram(24, 2, Layers)
    /\ calcIn \in TimerInputs
    /\ calcOut = [k \in 1..calcIn.lpr |-> ZeroTimer]
    /\ calcFor = [in |-> NoCalc, rerun |-> FALSE]

\* the brightness setter between two runs
CalcSetDimming(df) ==
    /\ df # calcIn.df
    /\ calcIn' = [calcIn EXCEPT !.df = df]
    /\ UNCHANGED << calcOut, calcFor, progVars >>

CalcTimerLut ==
    /\ calcOut' = TimerTable(calcIn)
    /\ calcFor' = [in |-> calcIn, rerun |-> (calcFor.in = calcIn)]
    /\ UNCHANGED << calcIn, progVars >>

TimerLutNext ==
    \/ \E df \in DimmingFactors : CalcSetDimming(df)
    \/ CalcTimerLut

SpecTimerLut == InitTimerLut /\ [][TimerLutNext]_vars

\* the table holds the result of a run on the current inputs
TimerLutComputed == calcFor.in = calcIn

Planes(in) == 0..(in.lpr - 1)
Budget(in, i) == Shr(in.base, in.lpr - i - 1)
UnclampedPeriod(in, i) == Budget(in, i) + in.dead
UnclampedOnTime(in, i) == (Budget(in, i) * in.df) \div in.dmax + in.dead
Clamped(in, i) == UnclampedPeriod(in, i) < in.minimum

\* C12: for every bit-plane where no clamp applies the stored pair is
\* period = (baseUnit >> (latchesPerRow - i - 1)) + latchDeadTime and
\* on_time = floor(budget * dimmingFactor / dimmingMaximum) + latchDeadTime;
\* four planes, base unit 256, dead time 10 and brightness 128/255 give
\* periods 42, 74, 138, 266 and on-times 26, 42, 74, 138.
C12_UnclampedPairs ==
    TimerLutComputed =>
        /\ \A i \in Planes(calcIn) :
              ~Clamped(calcIn, i) =>
                  /\ calcOut[i + 1].timer_period = UnclampedPeriod(calcIn, i)
                  /\ calcOut[i + 1].timer_oe = UnclampedOnTime(calcIn, i)
        /\ (calcIn = ExampleInput(0)) =>
              /\ [k \in 1..4 |-> calcOut[k].timer_period] = << 42, 74, 138, 266 >>
              /\ [k \in 1..4 |-> calcOut[k].timer_oe] = << 26, 42, 74, 138 >>

\* C13: every stored period is at least minimumPerPixelTime * panelWidth, and
\* a bit-plane whose unclamped period is shorter than that has period and
\* on_time padded by the same amount, up to exactly the minimum, so that
\* period - on_time is that of the unpadded pair.
C13_ClampPadsBoth ==
    TimerLutComputed =>
        \A i \in Planes(calcIn) :
            /\ calcOut[i + 1].timer_period >= calcIn.minimum
            /\ Clamped(calcIn, i) =>
                  /\ calcOut[i + 1].timer_period = calcIn.minimum
                  /\ calcOut[i + 1].timer_period - UnclampedPeriod(calcIn, i)
                        = calcOut[i + 1].timer_oe - UnclampedOnTime(calcIn, i)
                  /\ calcOut[i + 1].timer_period - calcOut[i + 1].timer_oe
                        = UnclampedPeriod(calcIn, i) - UnclampedOnTime(calcIn, i)

\* C13 witness: a table computed at reduced brightness in which a plane was
\* clamped and another was not.
C13_Witness ==
    /\ TimerLutComputed
    /\ calcIn.df = 127
    /\ \E i \in Planes(calcIn) :
          Clamped(calcIn, i) /\ calcOut[i + 1].timer_oe < calcOut[i + 1].timer_period
    /\ \E i \in Planes(calcIn) : ~Clamped(calcIn, i)

C20_PeriodsAscending ==
    TimerLutComputed =>
        /\ \A i, j \in Planes(calcIn) :
              (i < j) => calcOut[i + 1].timer_period <= calcOut[j + 1].timer_period
        /\ \A i \in Planes(calcIn) :
              calcOut[i + 1].timer_period <= calcOut[calcIn.lpr].timer_period
        /\ \A i, j \in Planes(calcIn) :
              (i < j /\ ~Clamped(calcIn, i) /\ ~Clamped(calcIn, j)) =>
                  calcOut[i + 1].timer_period < calcOut[j + 1].timer_period

----------------------------------------------------------------------------
\* loadMatrixBuffers on its own, down to the words it stores: the blocks of
\* the slot, then one pixel position of the row pair at a time

EncoderDepths == {12, 24, 30, 36, 48}
EncoderWidths == {1, 2}
EncoderSlots == {0, 1}

SampleValues == << 0, 65535, 43981, 4660, 255, 256, 32768, 1 >>
SampleAt(k) == SampleValues[(k % Len(SampleValues)) + 1]
\* tempRow0[i] and tempRow1[i]: rgb48 samples of the row and of its paired row
SamplePixels ==
    {[row0 |-> [red |-> SampleAt(k), green |-> SampleAt(k + 1), blue |-> SampleAt(k + 2)],
      row1 |-> [red |-> SampleAt(k + 3), green |-> SampleAt(k + 4), blue |-> SampleAt(k + 5)]] :
        k \in 0..(Len(SampleValues) - 1)}

\* if (latchesPerRow == 12) temp >>= 4;  if (latchesPerRow == 8) temp >>= 8;
EncoderShift(lpr) == IF lpr = 12 THEN 4 ELSE IF lpr = 8 THEN 8 ELSE 0

Shifted(lpr, rgb) ==
    [red |-> Shr(rgb.red, EncoderShift(lpr)),
     green |-> Shr(rgb.green, EncoderShift(lpr)),
     blue |-> Shr(rgb.blue, EncoderShift(lpr))]

\* o<k>.word: byte p of the word carries brightness bit p + 4k of the six
\* samples in the one-bit fields of GPIO_WORD_ORDER; clk and pad stay 0
OutputWord(temp0, temp1, k) ==
    [p \in 0..3 |->
        [clk |-> 0, pad |-> 0,
         b1 |-> BitAt(temp0.blue, p + k * 4),
         r1 |-> BitAt(temp0.red, p + k * 4),
         r2 |-> BitAt(temp1.red, p + k * 4),
         g1 |-> BitAt(temp0.green, p + k * 4),
         g2 |-> BitAt(temp1.green, p + k * 4),
         b2 |-> BitAt(temp1.blue, p + k * 4)]]

\* o.word | clkset.word
WithClock(word) == [p \in 0..3 |-> [word[p] EXCEPT !.clk = 1]]

\* uint8_t dmaBufferBytesPerPixel, uint16_t dmaBufferBytesPerRow
BytesPerPixel(lpr) == (lpr * 2) % 256
BytesPerRow(lpr, width) == (BytesPerPixel(lpr) * width) % 65536

\* tempptr, as an index into matrixUpdateData counted in uint32_t
PixelBase(lpr, width, slot, i) ==
    (slot * BytesPerRow(lpr, width)) \div 4 + (i * BytesPerPixel(lpr)) \div 4

\* the stores of one pass of the pixel loop, in program order
PixelStores(lpr, base, temp0, temp1) ==
    << << base, OutputWord(temp0, temp1, 0) >>,
       << base + lpr \div 4, WithClock(OutputWord(temp0, temp1, 0)) >>,
       << base + 1, OutputWord(temp0, temp1, 1) >>,
       << base + 1 + lpr \div 4, WithClock(OutputWord(temp0, temp1, 1)) >> >>
    \o (IF lpr >= 12
        THEN << << base + 2, OutputWord(temp0, temp1, 2) >>,
                << base + 2 + lpr \div 4, WithClock(OutputWord(temp0, temp1, 2)) >> >>
        ELSE << >>)
    \o (IF lpr = 16
        THEN << << base + 3, OutputWord(temp0, temp1, 3) >>,
                << base + 3 + lpr \div 4, WithClock(OutputWord(temp0, temp1, 3)) >> >>
        ELSE << >>)

RECURSIVE Store(_, _)
Store(mem, stores) ==
    IF stores = << >> THEN mem
    ELSE Store([mem EXCEPT ![Head(stores)[1]] = Head(stores)[2]], Tail(stores))

\* what a word or a block holds before loadMatrixBuffers writes it
StaleWord == [p \in 0..3 |-> [clk |-> 1, pad |-> 1, b1 |-> 1, r1 |-> 0, r2 |-> 1,
                              g1 |-> 0, g2 |-> 1, b2 |-> 0]]
StaleBlock == [addressValues |-> [bits_to_set |-> ADDX_PIN_MASK, bits_to_clear |-> ADDX_PIN_MASK],
               timerValues |-> [timer_period |-> 1, timer_oe |-> 1]]

\* matrixUpdateData holds the rows of all slots, then the memory that follows
DataWords(lpr, width) ==
    0..((Cardinality(EncoderSlots) * BytesPerRow(lpr, width)) \div 4 + 3)

InitEncoder ==
    /\ InitProgram(24, 2, Layers)
    /\ \E depth \in EncoderDepths, width \in EncoderWidths, slot \in EncoderSlots :
          \E pixels \in [0..(width - 1) -> SamplePixels] :
             /\ calcIn = [lpr |-> depth \div COLOR_CHANNELS_PER_PIXEL, width |-> width,
                          freeRowBuffer |-> slot, tempRow |-> pixels]
             /\ calcOut =
                   [blocks |-> [b \in 0..(Cardinality(EncoderSlots)
                                           * (depth \div COLOR_CHANNELS_PER_PIXEL) - 1)
                                  |-> StaleBlock],
                    data |-> [w \in DataWords(depth \div COLOR_CHANNELS_PER_PIXEL, width)
                                  |-> StaleWord]]
    /\ calcFor = [step |-> "blocks", i |-> 0]

\* for (j = 0; j < latchesPerRow; j++) { tempptr = matrixUpdateBlocks + freeRowBuffer *
\* latchesPerRow + j; ... }, for logical row 1 at full brightness
CalcLoadBlocks ==
    /\ calcFor.step = "blocks"
    /\ calcOut' =
          [calcOut EXCEPT !.blocks =
              [b \in DOMAIN calcOut.blocks |->
                  IF /\ b >= calcIn.freeRowBuffer * calcIn.lpr
                     /\ b < calcIn.freeRowBuffer * calcIn.lpr + calcIn.lpr
                  THEN [addressValues |-> AddressEntry(1),
                        timerValues |-> TimerEntry(calcIn.lpr, dimmingMaximum,
                                                   b - calcIn.freeRowBuffer * calcIn.lpr)]
                  ELSE calcOut.blocks[b]]]
    /\ calcFor' = [step |-> "pixels", i |-> 0]
    /\ UNCHANGED << calcIn, progVars >>

\* one pass of for (i = 0; i < matrixWidth; i++)
CalcEncodePixel ==
    /\ calcFor.step = "pixels"
    /\ calcFor.i < calcIn.width
    /\ calcOut' =
          [calcOut EXCEPT !.data =
              Store(calcOut.data,
                    PixelStores(calcIn.lpr,
                                PixelBase(calcIn.lpr, calcIn.width, calcIn.freeRowBuffer,
                                          calcFor.i),
                                Shifted(calcIn.lpr, calcIn.tempRow[calcFor.i].row0),
                                Shifted(calcIn.lpr, calcIn.tempRow[calcFor.i].row1)))]
    /\ calcFor' = [calcFor EXCEPT !.i = calcFor.i + 1]
    /\ UNCHANGED << calcIn, progVars >>

EncoderNext ==
    \/ CalcLoadBlocks
    \/ CalcEncodePixel

SpecEncoder == InitEncoder /\ [][EncoderNext]_vars

\* the one-bit field of each sample in an output word
Channels == { << "r1", "row0", "red" >>, << "g1", "row0", "green" >>,
              << "b1", "row0", "blue" >>, << "r2", "row1", "red" >>,
              << "g2", "row1", "green" >>, << "b2", "row1", "blue" >> }

\* the value read back from bit-planes j..lpr-1 of a pixel: plane j is byte
\* j % 4 of the pixel's word j / 4 and holds bit j
RECURSIVE DecodeFrom(_, _, _, _)
DecodeFrom(base, lpr, field, j) ==
    IF j >= lpr THEN 0
    ELSE calcOut.data[base + j \div 4][j % 4][field] * 2 ^ j
         + DecodeFrom(base, lpr, field, j + 1)

\* C14: for every bit-plane count the constructor accepts and every 16-bit
\* sample of either paired row, the bits read from the latchesPerRow planes
\* of an encoded pixel, plane j as bit j, give the sample shifted right by
\* 16 - latchesPerRow, without rounding.
C14_PixelRoundTrip ==
    (calcFor.step = "pixels") =>
        \A n \in 0..(calcFor.i - 1) : \A c \in Channels :
            DecodeFrom(PixelBase(calcIn.lpr, calcIn.width, calcIn.freeRowBuffer, n),
                       calcIn.lpr, c[1], 0)
              = Shr(calcIn.tempRow[n][c[2]][c[3]], 16 - calcIn.lpr)

\* the words of pixel position i in the slot being written
PixelWords(i) ==
    { w \in DOMAIN calcOut.data :
        /\ w >= PixelBase(calcIn.lpr, calcIn.width, calcIn.freeRowBuffer, i)
        /\ w < PixelBase(calcIn.lpr, calcIn.width, calcIn.freeRowBuffer, i)
                 + BytesPerPixel(calcIn.lpr) \div 4 }

\* the blocks of the slot being written
SlotBlockIndexes ==
    { b \in DOMAIN calcOut.blocks :
        b \div calcIn.lpr = calcIn.freeRowBuffer }

\* C16: for every bit-plane count and width the constructor accepts,
\* loadMatrixBuffers writes only the blocks of the slot cbGetNextWrite
\* returned and, for each pixel position, only that position's data words in
\* that slot: the blocks and words of every other slot, and the words of
\* every other pixel position, keep their contents.
C16_WritesOnlyReservedSlot ==
    [][/\ CalcLoadBlocks =>
             /\ calcOut'.data = calcOut.data
             /\ \A b \in DOMAIN calcOut.blocks :
                   b \notin SlotBlockIndexes => calcOut'.blocks[b] = calcOut.blocks[b]
       /\ CalcEncodePixel =>
             /\ calcOut'.blocks = calcOut.blocks
             /\ \A w \in DOMAIN calcOut.data :
                   w \notin PixelWords(calcFor.i) => calcOut'.data[w] = calcOut.data[w]]_vars

----------------------------------------------------------------------------
\* the fill loop of addressLUT in begin() on its own, for every panel height
\* the constructor stores in its uint8_t

AddressHeights == 0..255

InitAddressLUT ==
    /\ InitProgram(24, 2, Layers)
    /\ \E height \in AddressHeights :
          /\ calcIn = [height |-> height, rows |-> height \div 2]
          /\ calcOut = [i \in 0..(height \div 2 - 1) |-> ZeroAddress]
    /\ calcFor = [done |-> FALSE]

CalcFillAddressLUT ==
    /\ ~calcFor.done
    /\ calcOut' = FillAddressLUTOf(calcIn.rows)
    /\ calcFor' = [done |-> TRUE]
    /\ UNCHANGED << calcIn, progVars >>

AddressLUTNext == CalcFillAddressLUT

SpecAddressLUT == InitAddressLUT /\ [][AddressLUTNext]_vars

\* the address pin that carries bit k of the row index
AddxPin(k) ==
    CASE k = 0 -> ADDX_PIN_0
      [] k = 1 -> ADDX_PIN_1
      [] k = 2 -> ADDX_PIN_2
      [] k = 3 -> ADDX_PIN_3

\* C15: once begin() has filled the Address Table, for every logical row r
\* below rowsPerFrame: bits_to_set | bits_to_clear is the full address-pin
\* mask, bits_to_set & bits_to_clear is 0, and address pin k is in
\* bits_to_set exactly when bit k of r is 1.
C15_AddressPairs ==
    calcFor.done =>
        \A r \in 0..(calcIn.rows - 1) :
            /\ \A b \in 0..15 :
                  /\ (BitAt(calcOut[r].bits_to_set, b) = 1
                        \/ BitAt(calcOut[r].bits_to_clear, b) = 1)
                     <=> (BitAt(ADDX_PIN_MASK, b) = 1)
                  /\ ~(BitAt(calcOut[r].bits_to_set, b) = 1
                        /\ BitAt(calcOut[r].bits_to_clear, b) = 1)
            /\ \A k \in 0..3 :
                  BitAt(calcOut[r].bits_to_set, AddxPin(k)) = BitAt(r, k)

\* C15 witness: the table of a 32-row panel has been filled, down to row 15
\* with all four address pins set.
C15_Witness ==
    /\ calcFor.done
    /\ calcIn.height = 32
    /\ calcOut[15].bits_to_set = ADDX_PIN_MASK
    /\ calcOut[15].bits_to_clear = 0

----------------------------------------------------------------------------
\* the start of the program with up to three layers registered, in any order

ChainLayers == 1..3

InitLayers ==
    /\ InitProgram(24, 2, ChainLayers)
    /\ calcIn = NoCalc
    /\ calcOut = NoCalc
    /\ calcFor = NoCalc

LayersNext ==
    \/ \E l \in ChainLayers : AddLayer(l)
    \/ \E r \in Rotations : SetRotation(r)
    \/ BeginCbInit
    \/ BeginAddressLUT
    \/ BeginTimerLUT
    \/ BeginMatrixCalculations
    \/ BeginAttachInterrupts
    \/ BeginEnableChannels
    \/ BeginStartTimer
    \/ PumpWhile
    \/ PumpRotation
    \/ PumpRefresh
    \/ PumpBrightness
    \/ PumpAdvanceRow
    \/ LoadBlocks
    \/ LoadFill
    \/ LoadData
    \/ PumpCbWrite
    \/ PumpReturn

SpecLayers == InitLayers /\ [][LayersNext]_vars

\* the layers that received the named call in the current iteration, in call order
CallTargets(name) ==
    LET cs == SelectSeq(calls, LAMBDA c : c[1] = name)
    IN  [i \in 1..Len(cs) |-> cs[i][2]]

\* every element of the sequence twice in a row
Twice(seq) == [i \in 1..(2 * Len(seq)) |-> seq[(i + 1) \div 2]]

\* C17: addLayer appends: after addLayer(l1), ..., addLayer(ln) of distinct
\* layers without successor the chain read from baseLayer through nextLayer
\* is l1, ..., ln, nothing else changes it, and each traversal (rotation
\* broadcast, refresh-rate and frame callbacks, row production) ends and
\* visits exactly these layers, each once, in that order.
C17_TraversalInRegistrationOrder ==
    /\ [][/\ \A l \in ChainLayers : AddLayer(l) => Chain' = Append(Chain, l)
          /\ (\A l \in ChainLayers : ~AddLayer(l)) => Chain' = Chain]_vars
    /\ [](\A i, j \in 1..Len(Chain) : (i # j) => Chain[i] # Chain[j])
    /\ []((pc = "refresh" /\ iterPending.rotation) => CallTargets("setRotation") = Chain)
    /\ []((pc = "brightness") =>
             /\ CallTargets("setRefreshRate") = Chain
             /\ CallTargets("frameRefreshCallback") = Chain)
    /\ []((pc = "load_data") => CallTargets("fillRefreshRow") = Twice(Chain))

\* C17 witness: three layers were registered in the order 3, 1, 2, a rotation
\* was pending, and the first row has been produced after the rotation
\* broadcast and the frame callbacks.
C17_Witness ==
    /\ pc = "load_data"
    /\ Chain = << 3, 1, 2 >>
    /\ iterPending.rotation
    /\ Len(calls) = 15

----------------------------------------------------------------------------
\* a step that runs the fill loop of the Address Table or changes an entry
AddressTableWritten ==
    \/ addressLUTFills' # addressLUTFills
    \/ addressLUT' # addressLUT

----------------------------------------------------------------------------
----------------------------------------------------------------------------
\* C22: a shift-complete event first releases the slot the hardware has just
\* consumed (the one at the read cursor, which the source pointers reference)
\* and then sets the address, timing and data source pointers to the slot at
\* the read cursor after the release; nothing else moves the pointers, and
\* between handler runs the three pointers reference one and the same slot,
\* the one at the read cursor.
C22_PointersOnReadCursor ==
    /\ [][/\ RowShiftCompleteISR =>
                /\ (dmaBuffer.count > 0) =>
                      /\ cbGetNextRead(dmaBuffer) = dataSADDR
                      /\ cbGetNextRead(dmaBuffer') = (dataSADDR + 1) % dmaBufferNumRows
                      /\ dmaBuffer'.count = dmaBuffer.count - 1
                /\ addressSADDR' = cbGetNextRead(dmaBuffer')
                /\ timerSADDR' = cbGetNextRead(dmaBuffer')
                /\ dataSADDR' = cbGetNextRead(dmaBuffer')
          /\ (<< addressSADDR, timerSADDR, dataSADDR >>' # << addressSADDR, timerSADDR, dataSADDR >>)
                => RowShiftCompleteISR]_vars
    /\ [](/\ addressSADDR = timerSADDR
          /\ timerSADDR = dataSADDR
          /\ dataSADDR = cbGetNextRead(dmaBuffer))

\* C22 witness: the handler has released a slot of a full ring and moved
\* the three pointers off slot 0, and a committed slot is left to show.
C22_Witness ==
    /\ Running
    /\ addressSADDR = 1
    /\ timerSADDR = 1
    /\ dataSADDR = 1
    /\ cbGetNextRead(dmaBuffer) = 1
    /\ dmaBuffer.count = dmaBufferNumRows - 1

----------------------------------------------------------------------------
\* the frame callbacks of the current iteration have been made
AfterRefresh == pc \in {"brightness", "advance", "load_blocks", "load_fill",
                        "load_data", "cbWrite"}
\* the current iteration has not started to encode its row
BeforeEncode == pc \in {"rotation", "refresh", "brightness", "advance", "load_blocks"}

\* C23: in a loop iteration that begins at logical row 0 every layer of the
\* chain receives setRefreshRate(refreshRate) and frameRefreshCallback exactly
\* once, before the row of that iteration is encoded; in an iteration that
\* begins at a non-zero row no layer receives either; and a round of these
\* notifications is made after exactly rowsPerFrame rows were committed since
\* the round before it, never more.
C23_FrameCallbacksOncePerFrame ==
    /\ []((AfterRefresh /\ iterStartRow = 0) =>
             /\ CallTargets("setRefreshRate") = Chain
             /\ CallTargets("frameRefreshCallback") = Chain
             /\ \A i \in 1..Len(calls) :
                   (calls[i][1] = "setRefreshRate") => calls[i][3] = refreshRate)
    /\ []((InIteration /\ BeforeEncode) => CallTargets("fillRefreshRow") = << >>)
    /\ []((InIteration /\ iterStartRow # 0) =>
             /\ CallTargets("setRefreshRate") = << >>
             /\ CallTargets("frameRefreshCallback") = << >>)
    /\ [][PumpRefresh => commitsSinceRefresh \in {NoRow, MATRIX_ROWS_PER_FRAME}]_vars
    /\ [](commitsSinceRefresh <= MATRIX_ROWS_PER_FRAME)

\* C23 witness: after start, a run pended by the consumer began an iteration
\* at row 0, both layers of the chain were notified, rowsPerFrame rows after
\* the round before, and the row of the iteration has been encoded.
C23_Witness ==
    /\ Running
    /\ pumpCaller = "isr"
    /\ pc = "cbWrite"
    /\ iterStartRow = 0
    /\ Len(Chain) = 2
    /\ Len(CallTargets("frameRefreshCallback")) = 2
    /\ commitsSinceRefresh = 0

----------------------------------------------------------------------------
\* the ring is initialised and full, and both tables are filled
ReadyForHardware ==
    /\ dmaBuffer.size = dmaBufferNumRows
    /\ dmaBuffer.count > 0
    /\ cbIsFull(dmaBuffer)
    /\ addressLUTFills = 1
    /\ addressLUT = FillAddressLUT
    /\ timerLUT = calculateTimerLut(latchesPerRow, dimmingFactor)
    /\ \A s \in Committed(dmaBuffer) : \A j \in 1..latchesPerRow :
          /\ matrixUpdateBlocks[s][j].addressValues = addressLUT[matrixUpdateData[s]]
          /\ matrixUpdateBlocks[s][j].timerValues = timerLUT[j]

\* begin() has not returned
InBegin == pc \in {"begin_addressLUT", "begin_timerLUT", "begin_fill", "begin_attach",
                   "begin_enable", "begin_timer"} \/ pumpCaller = "begin"

\* C24: in begin() the handlers are attached while no channel is enabled and
\* the timer is stopped; the channels are enabled with the handlers attached,
\* the ring initialised and filled to capacity and both tables filled; the
\* timer is started with all of that in place and begin() then returns; so
\* no interrupt handler runs before begin() has returned, and the first
\* shift-complete event finds a full ring.
C24_StartupOrdering ==
    /\ [][/\ BeginAttachInterrupts => (~dmaEnabled /\ ~timerRunning /\ ReadyForHardware)
          /\ BeginEnableChannels => (isrAttached /\ ~timerRunning /\ ReadyForHardware)
          /\ BeginStartTimer =>
                (isrAttached /\ dmaEnabled /\ ReadyForHardware /\ ~InBegin')
          /\ (RowShiftCompleteISR \/ RowCalculationISR) => ~InBegin]_vars
    /\ [](timerRunning => (dmaEnabled /\ ~InBegin))
    /\ [](dmaEnabled => isrAttached)
    /\ []((pc = "constructed" \/ InBegin) => (~softintPending /\ HardwareSlots = {0}))

\* C24 witness: begin() is about to start the timer: handlers attached,
\* channels enabled, two rows committed, no event yet.
C24_Witness ==
    /\ pc = "begin_timer"
    /\ isrAttached
    /\ dmaEnabled
    /\ ~timerRunning
    /\ ReadyForHardware
    /\ dmaBuffer.count = 2
    /\ ~softintPending

----------------------------------------------------------------------------
\* the slot committed before the slot at the write cursor
PreviousSlot == (cbGetNextWrite(dmaBuffer) + dmaBuffer.size - 1) % dmaBuffer.size

\* the rows requested from the layers in the current iteration, in call order
RowsRequested ==
    LET cs == SelectSeq(calls, LAMBDA c : c[1] = "fillRefreshRow")
    IN  [i \in 1..Len(cs) |-> cs[i][3]]

\* C25: the row cursor stays in [0, rowsPerFrame); it changes only in the
\* advance that precedes each encode, to (cursor + 1) mod rowsPerFrame; the
\* row a commit adds is the cursor, which is 1 mod rowsPerFrame at the first
\* commit after start and otherwise the successor, mod rowsPerFrame, of the
\* row committed before it; and the encode of row r asks every layer for row
\* r and then row r + rowsPerFrame, and for no other row.
C25_RowsInCyclicOrder ==
    /\ [](currentRow \in 0..(MATRIX_ROWS_PER_FRAME - 1))
    /\ [][/\ (currentRow' # currentRow) => PumpAdvanceRow
          /\ PumpAdvanceRow =>
                /\ currentRow' = (currentRow + 1) % MATRIX_ROWS_PER_FRAME
                /\ pc' = "load_blocks"
          /\ LoadBlocks => currentRow = (iterStartRow + 1) % MATRIX_ROWS_PER_FRAME
          /\ PumpCbWrite =>
                /\ matrixUpdateData[cbGetNextWrite(dmaBuffer)] = currentRow
                /\ currentRow =
                      IF matrixUpdateData[PreviousSlot] = NoRow
                      THEN 1 % MATRIX_ROWS_PER_FRAME
                      ELSE (matrixUpdateData[PreviousSlot] + 1) % MATRIX_ROWS_PER_FRAME]_vars
    /\ []((pc \in {"load_data", "cbWrite"}) =>
             RowsRequested =
                 [i \in 1..(2 * Len(Chain)) |->
                     IF i % 2 = 1 THEN currentRow
                     ELSE currentRow + MATRIX_ROWS_PER_FRAME])

\* C25 witness: after start the consumer pended a run, the cursor wrapped to
\* row 0 behind a committed row 1, and two layers were asked for rows 0 and
\* rowsPerFrame; the row is about to be committed.
C25_Witness ==
    /\ Running
    /\ pumpCaller = "isr"
    /\ pc = "cbWrite"
    /\ currentRow = 0
    /\ matrixUpdateData[PreviousSlot] = MATRIX_ROWS_PER_FRAME - 1
    /\ RowsRequested = << 0, MATRIX_ROWS_PER_FRAME, 0, MATRIX_ROWS_PER_FRAME >>

----------------------------------------------------------------------------
\* The brightness setter called from a context that preempts the producer (an
\* interrupt of a priority above ROW_CALCULATION_ISR_PRIORITY, or any interrupt
\* while begin() fills the ring): it can run between any two statements of
\* matrixCalculations, so the brightness block is taken statement by statement

\* the setter, whole, at any point of the program
AsyncSetBrightness(b) ==
    /\ b # dimmingFactor
    /\ dimmingFactor' = b
    /\ brightnessChange' = TRUE
    /\ UNCHANGED << pc, pumpCaller, cfgVars, calcVars, addressLUTFills, commitsSinceRefresh,
                    dmaBuffer, currentRow, freeRowBuffer, addressLUT, timerLUT, slotVars,
                    rotation, rotationChange, layerVars, ptrVars, hwVars, softintPending,
                    calls, iterStartRow, iterPending, histVars >>

\* if (brightnessChange) { calculateTimerLut();
PumpBrightnessRebuild ==
    /\ pc = "brightness"
    /\ IF brightnessChange
       THEN /\ timerLUT' = calculateTimerLut(latchesPerRow, dimmingFactor)
            /\ pc' = "brightness_clear"
       ELSE /\ UNCHANGED timerLUT
            /\ pc' = "advance"
    /\ UNCHANGED << pumpCaller, cfgVars, calcVars, addressLUTFills, commitsSinceRefresh,
                    dmaBuffer, currentRow, freeRowBuffer, addressLUT, slotVars, ctlVars,
                    layerVars, ptrVars, hwVars, softintPending, calls, iterStartRow,
                    iterPending, histVars >>

\* brightnessChange = false; }
PumpBrightnessClear ==
    /\ pc = "brightness_clear"
    /\ brightnessChange' = FALSE
    /\ pc' = "advance"
    /\ UNCHANGED << pumpCaller, cfgVars, calcVars, addressLUTFills, commitsSinceRefresh,
                    dmaBuffer, currentRow, freeRowBuffer, addressLUT, timerLUT, slotVars,
                    rotation, rotationChange, dimmingFactor, layerVars, ptrVars, hwVars,
                    softintPending, calls, iterStartRow, iterPending, histVars >>

AsyncSetterNext ==
    \/ \E b \in BrightnessLevels : AsyncSetBrightness(b)
    \/ BeginCbInit
    \/ BeginAddressLUT
    \/ BeginTimerLUT
    \/ BeginMatrixCalculations
    \/ BeginAttachInterrupts
    \/ BeginEnableChannels
    \/ BeginStartTimer
    \/ PumpWhile
    \/ PumpRotation
    \/ PumpRefresh
    \/ PumpBrightnessRebuild
    \/ PumpBrightnessClear
    \/ PumpAdvanceRow
    \/ LoadBlocks
    \/ LoadFill
    \/ LoadData
    \/ PumpCbWrite
    \/ PumpReturn
    \/ RowCalculationISR
    \/ RowShiftCompleteISR

SpecAsyncSetter == Init /\ [][AsyncSetterNext]_vars

\* begin() has filled the Timing Table
TimingTableFilled == pc \notin {"constructed", "begin_addressLUT", "begin_timerLUT"}

\* C26: no brightness request is lost, whatever the point at which the
\* setter runs: the pending flag is cleared only with the Timing Table equal
\* to the table of the brightness fraction stored last, and whenever no
\* request is pending the table is the one computed from that fraction.
C26_NoBrightnessRequestLost ==
    /\ [][(brightnessChange /\ ~brightnessChange') =>
             timerLUT' = calculateTimerLut(latchesPerRow, dimmingFactor')]_vars
    /\ []((TimingTableFilled /\ ~brightnessChange) =>
             timerLUT = calculateTimerLut(latchesPerRow, dimmingFactor))

----------------------------------------------------------------------------
\* C27: in a computed Timing Table, for every bit-plane and every brightness
\* with dimmingFactor <= dimmingMaximum and dimmingMaximum > 0, the stored
\* on_time is at most the stored period, clamped or not, for every base tick
\* count of the panel heights, those whose period exceeds 65535 included.
C27_OnTimeWithinPeriod ==
    (TimerLutComputed /\ calcIn.dmax > 0 /\ calcIn.df <= calcIn.dmax) =>
        \A i \in Planes(calcIn) :
            calcOut[i + 1].timer_oe <= calcOut[i + 1].timer_period

====
